---- MODULE Spec2Model ----
(***************************************************************************)
(* Model of the doh-dns client: the ordered multi-server request engine    *)
(* (client.rs HyperDnsClient::request, dns.rs Dns::client_request) and the *)
(* response post-processing of dns.rs (request_and_process,                *)
(* resolve_mx_and_sort).  One resolve call is followed from its start to    *)
(* the Result it returns; the endpoints' behaviour is the environment.      *)
(***************************************************************************)
EXTENDS Integers, Sequences, FiniteSets, TLC

VARIABLES
    built,      \* what the construction returned: Ok("client") or Err(DnsError)
    servers,    \* Dns.servers / HyperDnsClient.servers: the endpoint catalog
    resolver,   \* StaticResolver.0 of the client's connector: hostname -> addresses
    resolved,   \* history: one [task, name, res] per StaticResolver::call
    zone,       \* the answer section the resolvers serve for the queried name
    call,       \* the resolve operation in progress: [op, rtype, name]
    pc,         \* position of the call: "idle", "get", "body", "done"
    cur,        \* index in servers of the endpoint of the current iteration
    error,      \* `let mut error` of the request loop
    inflight,   \* indices of the endpoints whose exchange is in flight
    attempts,   \* history: one [server, outcome] per ended attempt
    sent,       \* history: indices of the endpoints a GET was issued to
    ret,        \* what the request loop returned (Result<DnsResponse, QueryError>)
    mxs,        \* `let mut mxs` of resolve_mx_and_sort once sorted: (record, priority) pairs
    late,       \* history: endpoints whose response arrived after their deadline elapsed
    overdue,    \* endpoints whose deadline elapsed while their body was being read
    named,      \* the last rtype_to_name conversion: None or Some([rtype, name])
    result,     \* what the resolve operation returned (Result<Vec<DnsAnswer>, DnsError>)
    queries     \* the futures of the queries that run at once: the locals of each

vars ==
    <<built, servers, resolver, resolved, zone, call, pc, cur, error, inflight, attempts, sent,
      ret, mxs, late, overdue, named, result, queries>>

----------------------------------------------------------------------------
(* Bounds of the model. *)

\* longest endpoint catalog
MaxServers == 2
\* longest answer section of a response
MaxAnswers == 3
\* number of connection tasks that resolve a hostname concurrently
MaxTasks == 3
\* greatest record type number given to rtype_to_name
MaxRtype == 300

(* The greatest DNS status number a decoded response carries *)
MaxStatus == 30

(* The number of queries that run at once on one client *)
MaxQueries == 2

----------------------------------------------------------------------------
(* lib.rs: DnsHttpsServer *)

GOOGLE == <<"8.8.8.8", "2001:4860:4860::8888", "8.8.4.4", "2001:4860:4860::8844">>

CLOUDFLARE == <<"1.1.1.1", "2606:4700:4700::1111", "1.0.0.1", "2606:4700:4700::1001">>

Google(t) == [kind |-> "Google", domain |-> "", path |-> "", addr |-> <<>>, timeout |-> t]

Cloudflare(t) == [kind |-> "Cloudflare", domain |-> "", path |-> "", addr |-> <<>>, timeout |-> t]

Custom(d, p, a, t) == [kind |-> "Custom", domain |-> d, path |-> p, addr |-> a, timeout |-> t]

addr(s) ==
    CASE s.kind = "Google" -> GOOGLE
      [] s.kind = "Cloudflare" -> CLOUDFLARE
      [] OTHER -> s.addr

domain(s) ==
    CASE s.kind = "Google" -> "dns.google"
      [] s.kind = "Cloudflare" -> "cloudflare-dns.com"
      [] OTHER -> s.domain

path(s) ==
    CASE s.kind = "Google" -> "resolve"
      [] s.kind = "Cloudflare" -> "dns-query"
      [] OTHER -> s.path

timeout(s) == s.timeout

----------------------------------------------------------------------------
(* Result values *)

Ok(v) == [ok |-> TRUE, v |-> v]

Err(e) == [ok |-> FALSE, v |-> e]

None == [some |-> FALSE]

Some(v) == [some |-> TRUE, v |-> v]

(* error.rs: QueryError.  msg is the String a variant carries. *)
QueryError(kind, msg) == [kind |-> kind, msg |-> msg]

(* error.rs: DnsError *)
DnsErrorQuery(e) == [kind |-> "Query", query |-> e, status |-> "-"]

DnsErrorStatus(code) == [kind |-> "Status", query |-> QueryError("-", ""), status |-> code]

DnsErrorNoServers == [kind |-> "NoServers", query |-> QueryError("-", ""), status |-> "-"]

DnsErrorInvalidRecordType ==
    [kind |-> "InvalidRecordType", query |-> QueryError("-", ""), status |-> "-"]

----------------------------------------------------------------------------
(* dns.rs: Rtype(pub u32, pub &'static str) and the rtypes! table *)

Rtype(num, konst) == [code |-> num, sym |-> konst]

RTYPE_a == Rtype(1, "a")

RTYPE_aaaa == Rtype(28, "aaaa")

RTYPE_any == Rtype(0, "any")

RTYPE_cname == Rtype(5, "cname")

RTYPE_mx == Rtype(15, "mx")

RTYPE_txt == Rtype(16, "txt")

----------------------------------------------------------------------------
(* status.rs: RCode, in declaration order; #[derive(FromPrimitive)] numbers  *)
(* the variants from 0.                                                      *)

RCode ==
    << "NoError", "FormErr", "ServFail", "NXDomain", "NotImp", "Refused",
       "YXDomain", "YXRRSet", "NXRRSet", "NotAuth", "NotZone", "DSOTYPENI",
       "Unassigned12", "Unassigned13", "Unassigned14", "Unassigned15",
       "BADVERS", "BADKEY", "BADTIME", "BADMODE", "BADNAME", "BADALG",
       "BADTRUNC", "BADCOOKIE", "Unknown" >>

(* A plausible slip: a number past the last variant wraps around *)
from_u32_wrapping(n) == Some(RCode[(n % Len(RCode)) + 1])

(* A plausible slip: the variants numbered from 1 *)
from_u32_from1(n) == IF n >= 1 /\ n <= Len(RCode) THEN Some(RCode[n]) ELSE None

(* num::FromPrimitive::from_u32 for RCode *)
from_u32(n) == IF n < Len(RCode) THEN Some(RCode[n + 1]) ELSE None

----------------------------------------------------------------------------
(* client.rs: DnsAnswer, DnsResponse.  A String is a sequence of one-       *)
(* character strings.                                                        *)

DnsAnswer(name, type, ttl, data) == [name |-> name, type |-> type, TTL |-> ttl, data |-> data]

DnsResponse(status, answer) == [Status |-> status, Answer |-> answer]

(* A plausible slip: the requested type is not looked at *)
allow_cname_any(answer, request) == answer.type = 5

(* dns.rs: allow_cname *)
allow_cname(answer, request) ==
    IF request.code = 1 \/ request.code = 28
    THEN answer.type = 5
    ELSE FALSE

(* A plausible slip: the wildcard test `rtype.0 == 0` left out *)
keep_typed(a, rtype) == a.type = rtype.code \/ allow_cname(a, rtype)

(* dns.rs: the closure given to filter in request_and_process *)
keep(a, rtype) == a.type = rtype.code \/ rtype.code = 0 \/ allow_cname(a, rtype)

(* A plausible slip: `find` for `filter`, the first element that passes *)
Filter_first(s, rtype) ==
    LET passes(a) == keep(a, rtype)
        kept == SelectSeq(s, passes)
    IN IF kept = <<>> THEN <<>> ELSE <<kept[1]>>

(* Iterator::filter(...).collect(): the elements that pass, in order *)
RECURSIVE Filter(_, _)
Filter(s, rtype) ==
    IF s = <<>> THEN <<>>
    ELSE LET a == Head(s)
         IN (IF keep(a, rtype) THEN <<a>> ELSE <<>>) \o Filter(Tail(s), rtype)

(* Option::unwrap_or_else(|| vec![]) *)
unwrap_or_else(opt) == IF opt.some THEN opt.v ELSE <<>>

(* dns.rs: the body of request_and_process after client_request returned r *)
request_and_process(r, rtype) ==
    IF ~r.ok THEN Err(DnsErrorQuery(r.v))
    ELSE LET code == from_u32(r.v.Status)
         IN CASE code = Some("NoError") ->
                    Ok(Filter(unwrap_or_else(r.v.Answer), rtype))
              [] code.some /\ code # Some("NoError") -> Err(DnsErrorStatus(code.v))
              [] OTHER -> Err(DnsErrorStatus("Unknown"))

----------------------------------------------------------------------------
(* dns.rs: resolve_mx_and_sort *)

AsciiWhitespace == {" ", "\t", "\n", "\f", "\r"}

DigitChars == {"0", "1", "2", "3", "4", "5", "6", "7", "8", "9"}

DigitOf(c) ==
    CASE c = "0" -> 0 [] c = "1" -> 1 [] c = "2" -> 2 [] c = "3" -> 3 [] c = "4" -> 4
      [] c = "5" -> 5 [] c = "6" -> 6 [] c = "7" -> 7 [] c = "8" -> 8 [] c = "9" -> 9

(* str::split_ascii_whitespace: the maximal runs of non-whitespace *)
RECURSIVE SplitFrom(_, _)
SplitFrom(s, tok) ==
    IF s = <<>> THEN (IF tok = <<>> THEN <<>> ELSE <<tok>>)
    ELSE IF Head(s) \in AsciiWhitespace
         THEN (IF tok = <<>> THEN <<>> ELSE <<tok>>) \o SplitFrom(Tail(s), <<>>)
         ELSE SplitFrom(Tail(s), Append(tok, Head(s)))

split_ascii_whitespace(s) == SplitFrom(s, <<>>)

RECURSIVE StripZeros(_)
StripZeros(ds) ==
    IF Len(ds) > 1 /\ Head(ds) = 0 THEN StripZeros(Tail(ds)) ELSE ds

(* u32::MAX = 4294967295, digit by digit *)
U32MaxDigits == <<4, 2, 9, 4, 9, 6, 7, 2, 9, 5>>

(* Numbers as digit strings without leading zeros: a < b *)
DigitsLess(a, b) ==
    \/ Len(a) < Len(b)
    \/ /\ Len(a) = Len(b)
       /\ \E i \in 1..Len(a) :
             /\ a[i] < b[i]
             /\ \A j \in 1..(i - 1) : a[j] = b[j]

(* str::parse::<u32>: an optional '+', then one or more decimal digits, the *)
(* value at most u32::MAX.  The value is kept as its digits.                *)
parse_u32(tok) ==
    LET body == IF tok # <<>> /\ Head(tok) = "+" THEN Tail(tok) ELSE tok
    IN IF body = <<>> \/ \E i \in 1..Len(body) : body[i] \notin DigitChars
       THEN None
       ELSE LET ds == StripZeros([i \in 1..Len(body) |-> DigitOf(body[i])])
            IN IF DigitsLess(U32MaxDigits, ds) THEN None ELSE Some(ds)

(* A plausible slip: the record kept with its data as received *)
mx_entry_unstripped(a) ==
    IF a.type # RTYPE_mx.code THEN None
    ELSE LET parts == split_ascii_whitespace(a.data)
         IN IF parts = <<>> THEN None
            ELSE LET priority == parse_u32(parts[1])
                 IN IF ~priority.some \/ Len(parts) < 2 THEN None
                    ELSE Some([m |-> a, priority |-> priority.v])

(* A plausible slip: a priority that does not parse taken as 0 *)
mx_entry_priority_or_0(a) ==
    IF a.type # RTYPE_mx.code THEN None
    ELSE LET parts == split_ascii_whitespace(a.data)
         IN IF Len(parts) < 2 THEN None
            ELSE LET priority == parse_u32(parts[1])
                 IN Some([m |-> [a EXCEPT !.data = parts[2]],
                          priority |-> IF priority.some THEN priority.v ELSE <<0>>])

(* the filter_map closure of resolve_mx_and_sort: Some((m, priority)) or None *)
mx_entry(a) ==
    IF a.type # RTYPE_mx.code THEN None
    ELSE LET parts == split_ascii_whitespace(a.data)
         IN IF parts = <<>> THEN None
            ELSE LET priority == parse_u32(parts[1])
                 IN IF ~priority.some \/ Len(parts) < 2 THEN None
                    ELSE Some([m |-> [a EXCEPT !.data = parts[2]], priority |-> priority.v])

RECURSIVE filter_map(_)
filter_map(s) ==
    IF s = <<>> THEN <<>>
    ELSE LET e == mx_entry(Head(s))
         IN (IF e.some THEN <<e.v>> ELSE <<>>) \o filter_map(Tail(s))

(* A plausible slip: the vector returned as collected, the sort left out *)
sort_left_out(v) == {v}

(* A plausible slip: the comparison reversed, the greatest key first *)
sort_descending(v) ==
    LET n == Len(v)
        perms == {p \in [1..n -> 1..n] : \A i, j \in 1..n : i # j => p[i] # p[j]}
        sorted(p) == \A i \in 1..(n - 1) :
                        ~DigitsLess(v[p[i]].priority, v[p[i + 1]].priority)
    IN {[i \in 1..n |-> v[p[i]]] : p \in {q \in perms : sorted(q)}}

(* slice::sort_unstable_by_key(|x| x.1): the slice in ascending key order;   *)
(* the order of elements with equal keys is unspecified, so every ordering  *)
(* of them is a possible outcome.                                            *)
sort_unstable_by_key(v) ==
    LET n == Len(v)
        perms == {p \in [1..n -> 1..n] : \A i, j \in 1..n : i # j => p[i] # p[j]}
        sorted(p) == \A i \in 1..(n - 1) :
                        ~DigitsLess(v[p[i + 1]].priority, v[p[i]].priority)
    IN {[i \in 1..n |-> v[p[i]]] : p \in {q \in perms : sorted(q)}}

(* What a resolve operation leaves: its sorted vector (empty when it has   *)
(* none) and the Result it returns                                          *)
Outcome(v, res) == [mxs |-> v, res |-> res]

(* dns.rs: the body of resolve_mx_and_sort after client_request returned r: *)
(* the set of outcomes it can have.                                         *)
resolve_mx_and_sort(r) ==
    IF ~r.ok THEN {Outcome(<<>>, Err(DnsErrorQuery(r.v)))}
    ELSE LET code == from_u32(r.v.Status)
         IN CASE code = Some("NoError") ->
                    {Outcome(v, Ok([i \in 1..Len(v) |-> v[i].m])) :
                        v \in sort_unstable_by_key(filter_map(unwrap_or_else(r.v.Answer)))}
              [] code.some /\ code # Some("NoError") ->
                    {Outcome(<<>>, Err(DnsErrorStatus(code.v)))}
              [] OTHER -> {Outcome(<<>>, Err(DnsErrorStatus("Unknown")))}

----------------------------------------------------------------------------
(* Collaborators, at their interface *)

(* A plausible slip: the name put in the URL as given *)
domain_to_ascii_unchecked(name) == Ok(name)

(* idna::domain_to_ascii *)
domain_to_ascii(name) ==
    CASE name = "memo.com" -> Ok("memo.com")
      [] OTHER -> Err("Errors { disallowed_character }")

(* format!("https://{}/{}?name={}&type={}", ...) *)
format_url(server, name, rtype) ==
    <<"https://", domain(server), "/", path(server), "?name=", name, "&type=", rtype.sym>>

(* Texts holding a character no URI may hold *)
InvalidUriText == {"bad host"}

(* A plausible slip: the text used as the URI without the check *)
parse_uri_unchecked(url) == Ok(url)

(* str::parse::<Uri> *)
parse_uri(url) ==
    IF \E i \in 1..Len(url) : url[i] \in InvalidUriText
    THEN Err("invalid uri character")
    ELSE Ok(url)

(* A plausible slip: the field Answer declared without Option, so that a   *)
(* body without it does not deserialize                                    *)
from_slice_answer_required(body) ==
    IF body.json /\ body.Answer.some
    THEN Ok(DnsResponse(body.Status, body.Answer))
    ELSE Err("missing field Answer")

(* serde_json::from_slice::<DnsResponse>: a body is JSON of the expected     *)
(* shape, with or without its Answer member, or it is not                    *)
from_slice(body) ==
    IF body.json
    THEN Ok(DnsResponse(body.Status, body.Answer))
    ELSE Err("expected value at line 1 column 1")

----------------------------------------------------------------------------
(* client.rs: StaticResolver *)

(* str::parse::<Name>: hyper's Name::from_str accepts every host *)
parse_name(d) == Ok(d)

(* A plausible slip: of two pairs with the same name the earlier one stays *)
StaticResolver_new_first(ss) ==
    LET kept == {i \in 1..Len(ss) : parse_name(domain(ss[i])).ok}
        first(n) == CHOOSE i \in kept :
                        /\ parse_name(domain(ss[i])).v = n
                        /\ \A j \in kept : parse_name(domain(ss[j])).v = n => i <= j
    IN [n \in {parse_name(domain(ss[i])).v : i \in kept} |-> addr(ss[first(n)])]

(* StaticResolver::new: the (name, addresses) pair of every server whose     *)
(* domain parses, collected into a HashMap: of two pairs with the same name *)
(* the later one stays.                                                     *)
StaticResolver_new(ss) ==
    LET kept == {i \in 1..Len(ss) : parse_name(domain(ss[i])).ok}
        last(n) == CHOOSE i \in kept :
                       /\ parse_name(domain(ss[i])).v = n
                       /\ \A j \in kept : parse_name(domain(ss[j])).v = n => j <= i
    IN [n \in {parse_name(domain(ss[i])).v : i \in kept} |-> addr(ss[last(n)])]

(* A plausible slip: only the first address handed to the connector *)
StaticResolver_call_first(map, name) ==
    IF name \in DOMAIN map /\ Len(map[name]) > 0
    THEN Ok(<<map[name][1]>>)
    ELSE Err("AddrNotAvailable")

(* StaticResolver::call: the addresses of the name, in their order, or      *)
(* io::ErrorKind::AddrNotAvailable                                          *)
StaticResolver_call(map, name) ==
    IF name \in DOMAIN map /\ Len(map[name]) > 0
    THEN Ok(map[name])
    ELSE Err("AddrNotAvailable")

(* One call of the resolver, for the history: the connection task that made *)
(* it (0: the connection of the request loop), the name and the outcome     *)
Resolution(t, name, res) == [task |-> t, name |-> name, res |-> res]

(* Builder::default: the servers of the default client *)
DefaultServers == <<Google(3), Cloudflare(10)>>

(* Builder::with_servers(ss).build(): the client holds the servers and the  *)
(* resolver made of them                                                    *)
build(ss) == [servers |-> ss, resolver |-> StaticResolver_new(ss)]

(* dns.rs: Dns::with_servers(ss): NoServers for the empty list, otherwise   *)
(* the servers with the client C::default(), i.e. Builder::default().build() *)
with_servers(ss) ==
    IF ss = <<>>
    THEN Err(DnsErrorNoServers)
    ELSE Ok([servers |-> ss, resolver |-> build(DefaultServers).resolver])

----------------------------------------------------------------------------
(* client.rs: the arms of `match res.status().as_u16()` other than 200:     *)
(* the QueryError of the arm                                                *)
status_error(status) ==
    CASE status = 400 -> QueryError("BadRequest400", "")
      [] status = 413 -> QueryError("PayloadTooLarge413", "")
      [] status = 414 -> QueryError("UriTooLong414", "")
      [] status = 415 -> QueryError("UnsupportedMediaType415", "")
      [] status = 501 -> QueryError("NotImplemented501", "")
      [] status = 429 -> QueryError("TooManyRequests429", "")
      [] status = 500 -> QueryError("InternalServerError500", "")
      [] status = 502 -> QueryError("BadGateway502", "")
      [] status = 504 -> QueryError("ResolverTimeout504", "")
      [] OTHER -> QueryError("Unknown", "")

(* A plausible slip: the 501 arm written without `return` *)
status_returns_no501(status) == status \in {400, 413, 414, 415}

(* A plausible slip: the 502 arm written with `return` *)
status_returns_502(status) == status \in {400, 413, 414, 415, 501, 502}

(* A plausible slip: the `_` arm written with `return` *)
status_returns_unnamed(status) == status \notin {200, 429, 500, 502, 504}

(* client.rs: the arms that are `return Err(...)`; the others give the loop *)
(* the value of `error`                                                     *)
status_returns(status) == status \in {400, 413, 414, 415, 501}

(* The arms of the status match that name a status: 200 and the nine errors *)
StatusArms == {200, 400, 413, 414, 415, 429, 500, 501, 502, 504}

(* A plausible slip: the elapsed deadline reported as the default error *)
elapsed_error_unknown == QueryError("Unknown", "")

(* client.rs: the Err(_) arm of the timeout *)
elapsed_error == QueryError("Connection", "connection timeout after")

(* client.rs: the Ok(Err(e)) arm *)
transport_error == QueryError("Connection", "error trying to connect")

(* client.rs: the arms of the 200 case once the body was read: the          *)
(* QueryError the loop goes on with, or the decoded response it returns     *)
body_outcome(body) ==
    LET parsed == from_slice(body)
    IN IF parsed.ok
       THEN [return |-> TRUE, r |-> Ok(parsed.v)]
       ELSE [return |-> FALSE, r |-> Err(QueryError("ParseResponse", parsed.v))]

(* A plausible slip: the GET spawned as a task of its own, which the end of *)
(* the wait does not cancel                                                 *)
ended_kept(exchanges, i) == exchanges

(* client.rs: `match timeout(server.timeout(), get).await` is over: the     *)
(* future of the exchange with servers[i] is consumed, or dropped by the    *)
(* timeout that elapsed                                                     *)
ended(exchanges, i) == exchanges \ {i}

(* A plausible slip: only the first error of the loop is kept *)
record_error_first(old, new) == IF old.kind = "Unknown" THEN new ELSE old

(* client.rs: `error = match ... { ... }`: the new value of `error` *)
record_error(old, new) == new

(* A plausible slip: the loop tries the same server again *)
next_server_same(i) == IF i = 0 THEN 1 ELSE i

(* client.rs: Iterator::next of self.servers.iter(): the index after i *)
next_server(i) == i + 1

(* The body of a response: not JSON of the expected shape, or the JSON of   *)
(* a DnsResponse                                                            *)
Garbage == [json |-> FALSE, Status |-> 0, Answer |-> None]

Json(status, answer) == [json |-> TRUE, Status |-> status, Answer |-> answer]

(* One ended attempt, for the history: how the attempt on servers[i] ended  *)
(* ("timeout", "transport", "status", "read", "parse", "decoded"), the HTTP *)
(* status received (0: none) and the body read (Garbage: none)              *)
Attempt(i, kind, status, body) ==
    [server |-> i, kind |-> kind, status |-> status, body |-> body]

----------------------------------------------------------------------------
(* dns.rs: resolve_str_type, rtype_to_name *)

(* The entries given to rtypes!, in their order *)
rtypes ==
    << [num |-> 1, konst |-> <<"a">>],
       [num |-> 28, konst |-> <<"a", "a", "a", "a">>],
       [num |-> 0, konst |-> <<"a", "n", "y">>],
       [num |-> 257, konst |-> <<"c", "a", "a">>],
       [num |-> 59, konst |-> <<"c", "d", "s">>],
       [num |-> 37, konst |-> <<"c", "e", "r", "t">>],
       [num |-> 5, konst |-> <<"c", "n", "a", "m", "e">>],
       [num |-> 39, konst |-> <<"d", "n", "a", "m", "e">>],
       [num |-> 48, konst |-> <<"d", "n", "s", "k", "e", "y">>],
       [num |-> 43, konst |-> <<"d", "s">>],
       [num |-> 13, konst |-> <<"h", "i", "n", "f", "o">>],
       [num |-> 45, konst |-> <<"i", "p", "s", "e", "c", "k", "e", "y">>],
       [num |-> 15, konst |-> <<"m", "x">>],
       [num |-> 35, konst |-> <<"n", "a", "p", "t", "r">>],
       [num |-> 2, konst |-> <<"n", "s">>],
       [num |-> 47, konst |-> <<"n", "s", "e", "c">>],
       [num |-> 50, konst |-> <<"n", "s", "e", "c", "3">>],
       [num |-> 51, konst |-> <<"n", "s", "e", "c", "3", "p", "a", "r", "a", "m">>],
       [num |-> 12, konst |-> <<"p", "t", "r">>],
       [num |-> 17, konst |-> <<"r", "p">>],
       [num |-> 46, konst |-> <<"r", "r", "s", "i", "g">>],
       [num |-> 6, konst |-> <<"s", "o", "a">>],
       [num |-> 99, konst |-> <<"s", "p", "f">>],
       [num |-> 33, konst |-> <<"s", "r", "v">>],
       [num |-> 44, konst |-> <<"s", "s", "h", "f", "p">>],
       [num |-> 52, konst |-> <<"t", "l", "s", "a">>],
       [num |-> 16, konst |-> <<"t", "x", "t">>],
       [num |-> 11, konst |-> <<"w", "k", "s">>] >>

UpperCase ==
    <<"A", "B", "C", "D", "E", "F", "G", "H", "I", "J", "K", "L", "M",
      "N", "O", "P", "Q", "R", "S", "T", "U", "V", "W", "X", "Y", "Z">>

LowerCase ==
    <<"a", "b", "c", "d", "e", "f", "g", "h", "i", "j", "k", "l", "m",
      "n", "o", "p", "q", "r", "s", "t", "u", "v", "w", "x", "y", "z">>

(* str::to_ascii_lowercase: 'A'..'Z' to 'a'..'z', every other character kept *)
to_ascii_lowercase(s) ==
    [i \in 1..Len(s) |->
        IF \E k \in 1..26 : UpperCase[k] = s[i]
        THEN LowerCase[CHOOSE k \in 1..26 : UpperCase[k] = s[i]]
        ELSE s[i]]

(* str::to_ascii_uppercase: 'a'..'z' to 'A'..'Z', every other character kept *)
to_ascii_uppercase(s) ==
    [i \in 1..Len(s) |->
        IF \E k \in 1..26 : LowerCase[k] = s[i]
        THEN UpperCase[CHOOSE k \in 1..26 : LowerCase[k] = s[i]]
        ELSE s[i]]

(* The arm of `match rtype` of rtype_to_name: the first entry with the      *)
(* number, or the `_` arm                                                   *)
match_num(rtype) ==
    LET hits == {i \in 1..Len(rtypes) : rtypes[i].num = rtype}
    IN IF hits = {}
       THEN <<"u", "n", "k", "n", "o", "w", "n">>
       ELSE rtypes[CHOOSE i \in hits : \A j \in hits : i <= j].konst

(* A plausible slip: the name returned as stringify! spells it *)
rtype_to_name_as_spelled(rtype) == match_num(rtype)

(* rtype_to_name(rtype) *)
rtype_to_name(rtype) == to_ascii_uppercase(match_num(rtype))

(* stringify!($konst): the characters of the name of the type *)
stringify(rtype) ==
    CASE rtype = RTYPE_a -> <<"a">>
      [] rtype = RTYPE_aaaa -> <<"a", "a", "a", "a">>
      [] rtype = RTYPE_any -> <<"a", "n", "y">>
      [] rtype = RTYPE_cname -> <<"c", "n", "a", "m", "e">>
      [] rtype = RTYPE_mx -> <<"m", "x">>
      [] rtype = RTYPE_txt -> <<"t", "x", "t">>

(* A plausible slip: the `_` arm falling back to the query of every type *)
match_konst_any(low) ==
    LET arms == {RTYPE_a, RTYPE_aaaa, RTYPE_any, RTYPE_cname, RTYPE_mx, RTYPE_txt}
    IN IF \E t \in arms : stringify(t) = low
       THEN Some(CHOOSE t \in arms : stringify(t) = low)
       ELSE Some(RTYPE_any)

(* The arm of the match of resolve_str_type that `low` selects: the type of *)
(* the resolve_<konst> it calls, or None for the `_` arm                    *)
match_konst(low) ==
    LET arms == {RTYPE_a, RTYPE_aaaa, RTYPE_any, RTYPE_cname, RTYPE_mx, RTYPE_txt}
    IN IF \E t \in arms : stringify(t) = low
       THEN Some(CHOOSE t \in arms : stringify(t) = low)
       ELSE None

(* A plausible slip: the string matched as given *)
resolve_str_type_exact(rtype) == match_konst(rtype)

(* resolve_str_type(name, rtype): the arm `rtype` selects *)
resolve_str_type(rtype) == match_konst(to_ascii_lowercase(rtype))

----------------------------------------------------------------------------
(* The resolve operations of dns.rs *)

(* A plausible slip: resolve_mx routed to the sorting operation *)
Results_mx_sorted(c, r) ==
    IF c.op = "resolve_mx_and_sort" \/ c.rtype = RTYPE_mx
    THEN resolve_mx_and_sort(r)
    ELSE {Outcome(<<>>, request_and_process(r, c.rtype))}

(* What the operation c returns once the request loop returned r *)
Results(c, r) ==
    IF c.op = "resolve_mx_and_sort"
    THEN resolve_mx_and_sort(r)
    ELSE {Outcome(<<>>, request_and_process(r, c.rtype))}

(* The request loop returns r: the operation processes it and returns *)
Return(c, r) ==
    /\ pc' = "done"
    /\ ret' = r
    /\ \E x \in Results(c, r) :
          /\ mxs' = x.mxs
          /\ result' = x.res

(* client.rs: `error = e`, the error! line, then the for loop goes on with  *)
(* the server of index i: the loop is exhausted, the URL does not parse, or *)
(* the GET is issued, over a new connection, for which the connector        *)
(* resolves the host of the URL.                                            *)
Iterate(c, i, e) ==
    /\ error' = record_error(error, e)
    /\ IF i > Len(servers)
       THEN /\ Return(c, Err(record_error(error, e)))
            /\ inflight' = ended(inflight, cur)
            /\ UNCHANGED <<cur, sent, resolved>>
       ELSE LET url == format_url(servers[i], domain_to_ascii(c.name).v, c.rtype)
                endpoint == parse_uri(url)
            IN IF ~endpoint.ok
               THEN /\ Return(c, Err(QueryError("InvalidEndpoint", endpoint.v)))
                    /\ inflight' = ended(inflight, cur)
                    /\ cur' = i
                    /\ UNCHANGED <<sent, resolved>>
               ELSE /\ pc' = "get"
                    /\ cur' = i
                    /\ inflight' = ended(inflight, cur) \cup {i}
                    /\ sent' = Append(sent, i)
                    /\ resolved' = Append(resolved,
                           Resolution(0, domain(servers[i]),
                               StaticResolver_call(resolver, domain(servers[i]))))
                    /\ UNCHANGED <<ret, mxs, result>>

----------------------------------------------------------------------------
(* Inputs *)

(* Answers a resolver may hold *)
Cname1 == DnsAnswer("www.sendgrid.com.", 5, 988, <<"s", ".">>)

A1 == DnsAnswer("sendgrid.com.", 1, 89, <<"1", ".", "1">>)

A2 == DnsAnswer("sendgrid.com.", 1, 89, <<"1", ".", "2">>)

Txt1 == DnsAnswer("google.com.", 16, 3599, <<"v", "=", "s">>)

Mx10 == DnsAnswer("gmail.com.", 15, 3599, <<"1", "0", " ", "a", ".">>)

Mx5 == DnsAnswer("gmail.com.", 15, 3599, <<"5", " ", "g", ".">>)

AnswerPool == {Cname1, A1, A2, Txt1, Mx10, Mx5}

(* Every answer section of at most MaxAnswers answers *)
Zones == UNION {[1..k -> AnswerPool] : k \in 0..MaxAnswers}

(* MX answers: priorities 10 and 5, a second record of priority 5 written   *)
(* "05", a priority that is no number, a record without exchange            *)
Mx5b == DnsAnswer("gmail.com.", 15, 299, <<"0", "5", " ", "h", ".">>)

MxNoNumber == DnsAnswer("gmail.com.", 15, 3599, <<"x", " ", "a", ".">>)

MxNoExchange == DnsAnswer("gmail.com.", 15, 3599, <<"5">>)

MxPool == {Mx10, Mx5, Mx5b, MxNoNumber, MxNoExchange, A1}

(* Every answer section of at most MaxAnswers answers to an MX query *)
MxZones == UNION {[1..k -> MxPool] : k \in 0..MaxAnswers}

(* The answer sections the request-engine specification runs on *)
EngineZones == {<<>>, <<Cname1, A1>>}

(* The Status member of a response body *)
DnsStatuses == {0, 2, 3, 24, 25}

(* The bodies an endpoint may answer a query for the name with *)
Bodies == {Garbage} \cup {Json(s, a) : s \in DnsStatuses, a \in {None, Some(zone)}}

(* The HTTP statuses an endpoint may answer with; 404 stands for the others *)
HttpStatuses == {200, 400, 413, 414, 415, 429, 500, 501, 502, 504, 404}

ServerPool ==
    {Google(5), Cloudflare(5), Custom("bad host", "dns-query", <<>>, 5),
     Custom("doh.opendns.com", "dns-query", <<"208.67.222.222">>, 5)}

(* Every list of at most n endpoints a caller may construct a client with *)
Catalogs(n) == UNION {[1..k -> ServerPool] : k \in 0..n}

Rtypes == {RTYPE_a, RTYPE_aaaa, RTYPE_any, RTYPE_cname, RTYPE_mx, RTYPE_txt}

(* The record type strings a caller of resolve_str_type may give; "bogus", *)
(* "mx " and the empty string name no type                                 *)
Texts ==
    {<<"M", "X">>, <<"M", "x">>, <<"m", "x">>, <<"A">>, <<"T", "x", "t">>,
     <<"b", "o", "g", "u", "s">>, <<"m", "x", " ">>, <<>>}

Names == {"memo.com", "\\u{2488}.com"}

Call(op, rtype, name, text) == [op |-> op, rtype |-> rtype, name |-> name, text |-> text]

NoType == Rtype(0, "-")

(* resolve_<konst>(name) for the konst of Rtypes, resolve_mx_and_sort(name) *)
(* and resolve_str_type(name, text), whose type is not determined yet       *)
Calls ==
    {Call("resolve", t, n, <<>>) : t \in Rtypes, n \in Names}
    \cup {Call("resolve_mx_and_sort", RTYPE_mx, n, <<>>) : n \in Names}
    \cup {Call("resolve_str_type", NoType, n, text) : n \in Names, text \in Texts}

NoCall == Call("-", NoType, "-", <<>>)

NoResult == [ok |-> FALSE, v |-> QueryError("-", "")]

----------------------------------------------------------------------------
(* The ways to construct a client with the servers ss, and what they return *)
Constructions(ss) == {with_servers(ss), Ok(build(ss))}

(* The state after a construction with one of `catalogs`, the resolvers     *)
(* serving one of `zones`; a failed construction leaves no client           *)
(* The queries that run at once on one client: `request` takes &self, so    *)
(* any number of its futures may be in progress; the locals of one future   *)
(* (the encoded name, `error`, the iterator over self.servers) are its own  *)
Queries == 1..MaxQueries

(* The locals of the future of one query, with the history of its attempts *)
Fresh ==
    [call |-> NoCall, pc |-> "idle", cur |-> 0, error |-> QueryError("Unknown", ""),
     attempts |-> <<>>, sent |-> <<>>, ret |-> NoResult, result |-> NoResult]

InitWith(catalogs, zones) ==
    /\ \E ss \in catalogs : \E c \in Constructions(ss) :
          /\ built = (IF c.ok THEN Ok("client") ELSE c)
          /\ servers = (IF c.ok THEN c.v.servers ELSE <<>>)
          /\ resolver = (IF c.ok THEN c.v.resolver ELSE <<>>)
    /\ resolved = <<>>
    /\ zone \in zones
    /\ call = NoCall
    /\ pc = "idle"
    /\ cur = 0
    /\ error = QueryError("Unknown", "")
    /\ inflight = {}
    /\ attempts = <<>>
    /\ sent = <<>>
    /\ ret = NoResult
    /\ mxs = <<>>
    /\ late = {}
    /\ overdue = {}
    /\ named = None
    /\ result = NoResult
    /\ queries = [q \in Queries |-> Fresh]

Init == InitWith(Catalogs(MaxServers), EngineZones)

(* The call that runs: resolve_str_type passes on to the resolve_<konst> of *)
(* the arm its string selects                                               *)
Dispatched(c) ==
    IF c.op = "resolve_str_type" /\ resolve_str_type(c.text).some
    THEN [c EXCEPT !.rtype = resolve_str_type(c.text).v]
    ELSE c

(* A resolve operation is called: resolve_str_type with a string that names *)
(* no type returns at once; otherwise the name is encoded and the loop      *)
(* starts                                                                   *)
Resolve(c) ==
    /\ built.ok
    /\ pc = "idle"
    /\ call' = Dispatched(c)
    /\ IF c.op = "resolve_str_type" /\ ~resolve_str_type(c.text).some
       THEN /\ pc' = "done"
            /\ result' = Err(DnsErrorInvalidRecordType)
            /\ UNCHANGED <<error, cur, inflight, sent, resolved, ret, mxs>>
       ELSE IF ~domain_to_ascii(c.name).ok
       THEN /\ Return(Dispatched(c), Err(QueryError("InvalidName", domain_to_ascii(c.name).v)))
            /\ UNCHANGED <<error, cur, inflight, sent, resolved>>
       ELSE Iterate(Dispatched(c), next_server(0), QueryError("Unknown", ""))
    /\ UNCHANGED <<queries, built, servers, resolver, zone, attempts, late, overdue, named>>

(* timeout(server.timeout(), get) elapses: Err(_) *)
GetTimeout ==
    /\ pc = "get"
    /\ attempts' = Append(attempts, Attempt(cur, "timeout", 0, Garbage))
    /\ Iterate(call, next_server(cur), elapsed_error)
    /\ UNCHANGED <<queries, built, servers, resolver, zone, call, late, overdue, named>>

(* get fails in the transport: Ok(Err(e)) *)
GetError ==
    /\ pc = "get"
    /\ attempts' = Append(attempts, Attempt(cur, "transport", 0, Garbage))
    /\ Iterate(call, next_server(cur), transport_error)
    /\ UNCHANGED <<queries, built, servers, resolver, zone, call, late, overdue, named>>

(* get returns a response with `status`, Ok(Ok(res)): the connector had an  *)
(* address to connect to                                                    *)
GetResponse(status) ==
    /\ pc = "get"
    /\ resolved[Len(resolved)].res.ok
    /\ IF status = 200
       THEN /\ pc' = "body"
            /\ UNCHANGED <<cur, error, inflight, attempts, sent, resolved, ret, mxs, result>>
       ELSE /\ attempts' = Append(attempts, Attempt(cur, "status", status, Garbage))
            /\ IF status_returns(status)
               THEN /\ Return(call, Err(status_error(status)))
                    /\ inflight' = ended(inflight, cur)
                    /\ UNCHANGED <<cur, error, sent, resolved>>
               ELSE Iterate(call, next_server(cur), status_error(status))
    /\ UNCHANGED <<queries, built, servers, resolver, zone, call, late, overdue, named>>

(* hyper::body::to_bytes fails *)
BodyError ==
    /\ pc = "body"
    /\ attempts' = Append(attempts, Attempt(cur, "read", 200, Garbage))
    /\ Iterate(call, next_server(cur), QueryError("ReadResponse", "error reading a body"))
    /\ UNCHANGED <<queries, built, servers, resolver, zone, call, late, overdue, named>>

(* hyper::body::to_bytes returns `body` *)
BodyRead(body) ==
    /\ pc = "body"
    /\ LET o == body_outcome(body)
       IN IF o.return
          THEN /\ attempts' = Append(attempts, Attempt(cur, "decoded", 200, body))
               /\ Return(call, o.r)
               /\ inflight' = ended(inflight, cur)
               /\ UNCHANGED <<cur, error, sent, resolved>>
          ELSE /\ attempts' = Append(attempts, Attempt(cur, "parse", 200, body))
               /\ Iterate(call, next_server(cur), o.r.v)
    /\ UNCHANGED <<queries, built, servers, resolver, zone, call, late, overdue, named>>

(* The response of servers[i], whose attempt the deadline ended, arrives at *)
(* the client.  An exchange that is still held takes it as its response;    *)
(* one that was dropped has nobody to take it.                              *)
LateResponse(i, status) ==
    /\ i \notin late
    /\ \E k \in 1..Len(attempts) : attempts[k].server = i /\ attempts[k].kind = "timeout"
    /\ late' = late \cup {i}
    /\ IF i \in inflight
       THEN /\ attempts' = Append(attempts, Attempt(i, "status", status, Garbage))
            /\ error' = record_error(error, status_error(status))
       ELSE UNCHANGED <<attempts, error>>
    /\ UNCHANGED <<queries, built, servers, resolver, resolved, zone, call, pc, cur, inflight, sent,
                   ret, mxs, overdue, named, result>>

(* The deadline of servers[cur] elapses while the body of its response is   *)
(* being read: hyper::body::to_bytes(res).await is not under timeout(..),   *)
(* the read goes on                                                         *)
BodyDeadline ==
    /\ pc = "body"
    /\ cur \notin overdue
    /\ overdue' = overdue \cup {cur}
    /\ UNCHANGED <<queries, built, servers, resolver, resolved, zone, call, pc, cur, error, inflight,
                   attempts, sent, ret, mxs, late, named, result>>

(* The steps of the resolve call *)
Next ==
    \/ \E c \in Calls : Resolve(c)
    \/ GetTimeout
    \/ GetError
    \/ \E status \in HttpStatuses : GetResponse(status)
    \/ BodyError
    \/ \E body \in Bodies : BodyRead(body)

(* The steps of the call and the events of its deadlines *)
NextTimed ==
    \/ Next
    \/ \E i \in 1..Len(servers), status \in {200, 500} : LateResponse(i, status)
    \/ BodyDeadline

Spec == Init /\ [][Next]_vars

(* The deadline specification: the call with the events of its deadlines,   *)
(* the resolvers serving one answer section                                 *)
InitTimed == InitWith(Catalogs(MaxServers), {<<Cname1, A1>>})

SpecTimed == InitTimed /\ [][NextTimed]_vars

(* The post-processing specification: one endpoint, every answer section *)
InitAnswers == InitWith(Catalogs(1), Zones)

SpecAnswers == InitAnswers /\ [][Next]_vars

(* The MX specification: one endpoint, every answer section to an MX query *)
InitMx == InitWith(Catalogs(1), MxZones)

SpecMx == InitMx /\ [][Next]_vars

(* The malformed-record specification: MX answers whose data has no token,  *)
(* no number, a number past u32::MAX or no exchange name, among good ones   *)
MxNoToken == DnsAnswer("gmail.com.", 15, 3599, <<" ">>)

MxOutOfRange ==
    DnsAnswer("gmail.com.", 15, 3599,
              <<"4", "2", "9", "4", "9", "6", "7", "2", "9", "6", " ", "b", ".">>)

MalformedPool == {Mx10, Mx5, MxNoToken, MxNoNumber, MxOutOfRange, MxNoExchange}

MalformedZones == UNION {[1..k -> MalformedPool] : k \in 0..MaxAnswers}

InitMalformed == InitWith(Catalogs(1), MalformedZones)

SpecMalformed == InitMalformed /\ [][Next]_vars

----------------------------------------------------------------------------
(* The resolver specification: the connection tasks of one client, each     *)
(* with its clone of the connector, resolve hostnames concurrently.         *)

(* The connection tasks *)
Tasks == 1..MaxTasks

(* The hostnames a task may resolve; "example.com" is the host of no server *)
Hostnames == {"dns.google", "doh.opendns.com", "example.com"}

InitResolver == InitWith(Catalogs(MaxServers), {<<>>})

(* The connector of task t resolves `name`: StaticResolver::call, which     *)
(* returns a ready future, so that a call is one step                       *)
Lookup(t, name) ==
    /\ built.ok
    /\ \A k \in 1..Len(resolved) : resolved[k].task # t
    /\ resolved' = Append(resolved, Resolution(t, name, StaticResolver_call(resolver, name)))
    /\ UNCHANGED <<queries, built, servers, resolver, zone, call, pc, cur, error, inflight, attempts, sent,
                   ret, mxs, late, overdue, named, result>>

NextResolver == \E t \in Tasks, name \in Hostnames : Lookup(t, name)

SpecResolver == InitResolver /\ [][NextResolver]_vars

(* The hostname specification: calls on clients whose Custom endpoints share *)
(* one hostname and carry no address, one address or another address         *)
HostPool ==
    {Google(5),
     Custom("doh.opendns.com", "dns-query", <<>>, 5),
     Custom("doh.opendns.com", "dns-query", <<"208.67.222.222">>, 5),
     Custom("doh.opendns.com", "dns-query", <<"208.67.220.220">>, 5)}

HostCatalogs(n) == UNION {[1..k -> HostPool] : k \in 0..n}

InitHosts == InitWith(HostCatalogs(MaxServers), {<<Cname1, A1>>})

SpecHosts == InitHosts /\ [][Next]_vars

(* The concurrent specification: MaxQueries queries in progress at once on   *)
(* one client of two endpoints, their steps interleaved in every order.      *)
(* The client (servers, the resolver's map) is shared and read only.         *)

(* A plausible slip: the position in the catalog kept in the client, one    *)
(* position for all the queries                                             *)
iterator_of_client(q) == 1

(* `for server in self.servers.iter()`: the iterator belongs to the future  *)
(* of the query that runs the loop                                          *)
iterator_of(q) == q

(* The endpoint the exchange in flight of a query goes to *)
exchange_of(l) == l.sent[Len(l.sent)]

(* The future of a query completes: the loop returned r and the resolve      *)
(* operation returns what it makes of r                                      *)
Finished(l, r) ==
    {[l EXCEPT !.pc = "done", !.ret = r, !.result = x.res] : x \in Results(l.call, r)}

(* The locals l of query q and the position i of its iterator are stored *)
Store(q, l, i) == [queries EXCEPT ![q] = l, ![iterator_of(q)].cur = i]

(* The loop of query q goes on after position `from` with e the last error *)
QIterate(q, l, from, e) ==
    LET i == next_server(from)
        l1 == [l EXCEPT !.error = record_error(l.error, e)]
    IN IF i > Len(servers)
       THEN \E f \in Finished(l1, Err(l1.error)) : queries' = Store(q, f, from)
       ELSE LET url == format_url(servers[i], domain_to_ascii(l.call.name).v, l.call.rtype)
                endpoint == parse_uri(url)
            IN IF ~endpoint.ok
               THEN \E f \in Finished(l1, Err(QueryError("InvalidEndpoint", endpoint.v))) :
                       queries' = Store(q, f, i)
               ELSE queries' = Store(q, [l1 EXCEPT !.pc = "get", !.sent = Append(@, i)], i)

(* The attempt in flight of the query with locals l ended *)
Attempted(l, kind, status, body) ==
    [l EXCEPT !.attempts = Append(@, Attempt(exchange_of(l), kind, status, body))]

QUnchanged ==
    UNCHANGED <<built, servers, resolver, resolved, zone, call, pc, cur, error, inflight,
                attempts, sent, ret, mxs, late, overdue, named, result>>

QResolve(q, c) ==
    /\ built.ok
    /\ queries[q].pc = "idle"
    /\ LET l == [queries[q] EXCEPT !.call = Dispatched(c)]
       IN IF c.op = "resolve_str_type" /\ ~resolve_str_type(c.text).some
          THEN queries' = [queries EXCEPT ![q] =
                              [l EXCEPT !.pc = "done", !.result = Err(DnsErrorInvalidRecordType)]]
          ELSE IF ~domain_to_ascii(c.name).ok
          THEN \E f \in Finished(l, Err(QueryError("InvalidName", domain_to_ascii(c.name).v))) :
                  queries' = [queries EXCEPT ![q] = f]
          ELSE QIterate(q, l, 0, QueryError("Unknown", ""))
    /\ QUnchanged

QGetTimeout(q) ==
    /\ queries[q].pc = "get"
    /\ QIterate(q, Attempted(queries[q], "timeout", 0, Garbage),
                queries[iterator_of(q)].cur, elapsed_error)
    /\ QUnchanged

QGetError(q) ==
    /\ queries[q].pc = "get"
    /\ QIterate(q, Attempted(queries[q], "transport", 0, Garbage),
                queries[iterator_of(q)].cur, transport_error)
    /\ QUnchanged

QGetResponse(q, status) ==
    /\ queries[q].pc = "get"
    /\ StaticResolver_call(resolver, domain(servers[exchange_of(queries[q])])).ok
    /\ IF status = 200
       THEN queries' = [queries EXCEPT ![q].pc = "body"]
       ELSE LET l == Attempted(queries[q], "status", status, Garbage)
            IN IF status_returns(status)
               THEN \E f \in Finished(l, Err(status_error(status))) :
                       queries' = [queries EXCEPT ![q] = f]
               ELSE QIterate(q, l, queries[iterator_of(q)].cur, status_error(status))
    /\ QUnchanged

QBodyError(q) ==
    /\ queries[q].pc = "body"
    /\ QIterate(q, Attempted(queries[q], "read", 200, Garbage),
                queries[iterator_of(q)].cur,
                QueryError("ReadResponse", "error reading a body"))
    /\ QUnchanged

QBodyRead(q, body) ==
    /\ queries[q].pc = "body"
    /\ LET o == body_outcome(body)
       IN IF o.return
          THEN \E f \in Finished(Attempted(queries[q], "decoded", 200, body), o.r) :
                  queries' = [queries EXCEPT ![q] = f]
          ELSE QIterate(q, Attempted(queries[q], "parse", 200, body),
                        queries[iterator_of(q)].cur, o.r.v)
    /\ QUnchanged

(* The inputs of the concurrent queries *)
QCalls ==
    {Call("resolve", RTYPE_a, "memo.com", <<>>),
     Call("resolve_mx_and_sort", RTYPE_mx, "memo.com", <<>>)}

QStatuses == {200, 400, 500}

QBodies == {Garbage, Json(0, Some(zone))}

InitConcurrent == InitWith({<<Google(5), Cloudflare(5)>>}, {<<Cname1, A1, Mx10>>})

NextConcurrent ==
    \E q \in Queries :
       \/ \E c \in QCalls : QResolve(q, c)
       \/ QGetTimeout(q)
       \/ QGetError(q)
       \/ \E status \in QStatuses : QGetResponse(q, status)
       \/ QBodyError(q)
       \/ \E body \in QBodies : QBodyRead(q, body)

SpecConcurrent == InitConcurrent /\ [][NextConcurrent]_vars

----------------------------------------------------------------------------
(* The naming specification: a client converts record type numbers *)

(* The numbers given to rtype_to_name *)
RtypeNumbers == 0..MaxRtype

InitNames == InitWith(Catalogs(1), {<<>>})

(* rtype_to_name(rtype) is called; one conversion is followed *)
RtypeToName(rtype) ==
    /\ built.ok
    /\ ~named.some
    /\ named' = Some([rtype |-> rtype, name |-> rtype_to_name(rtype)])
    /\ UNCHANGED <<queries, built, servers, resolver, resolved, zone, call, pc, cur, error, inflight,
                   attempts, sent, ret, mxs, late, overdue, result>>

NextNames == \E rtype \in RtypeNumbers : RtypeToName(rtype)

SpecNames == InitNames /\ [][NextNames]_vars

(* The status specification: calls to one endpoint that answers 200 with a  *)
(* decodable body of any DNS status number, with one answer section or none *)
InitStatus == InitWith(Catalogs(1), {<<Cname1, A1>>})

StatusNumbers == 0..MaxStatus

NextStatus ==
    \/ \E c \in Calls : Resolve(c)
    \/ GetResponse(200)
    \/ \E status \in StatusNumbers, answer \in {None, Some(zone)} :
          BodyRead(Json(status, answer))

SpecStatus == InitStatus /\ [][NextStatus]_vars

----------------------------------------------------------------------------
(* Vocabulary of the properties *)

(* The attempt on servers[k] is the last step of the call *)
EndsCall(k) ==
    /\ pc = "done"
    /\ Len(attempts) = k
    /\ Len(sent) = k
    /\ sent[k] = attempts[k].server
    /\ inflight = {}

(* The URL of servers[i] parses *)
UrlParses(i) == domain(servers[i]) \notin InvalidUriText /\ path(servers[i]) \notin InvalidUriText

(* The GET to servers[i] was issued as the i-th of the call *)
Contacted(i) == Len(sent) >= i /\ sent[i] = i

(* An outcome after which the engine is to try the next endpoint: no HTTP  *)
(* response (deadline, transport), or a status other than 200 and the five *)
(* fatal ones                                                              *)
RetryableOutcome(a) ==
    \/ a.kind \in {"timeout", "transport"}
    \/ a.kind = "status" /\ a.status \notin {200, 400, 413, 414, 415, 501}

----------------------------------------------------------------------------
(* C1: an attempt answered with HTTP 400, 413, 414, 415 or 501 ends the    *)
(* call: the matching error is returned, the attempt is the last one and   *)
(* no later endpoint of the catalog is contacted; on the first endpoint    *)
(* that is exactly one attempt, whatever the catalog length.               *)
C1_FatalStatusStops ==
    \A k \in 1..Len(attempts) :
        LET a == attempts[k]
            matching ==
                CASE a.status = 400 -> "BadRequest400"
                  [] a.status = 413 -> "PayloadTooLarge413"
                  [] a.status = 414 -> "UriTooLong414"
                  [] a.status = 415 -> "UnsupportedMediaType415"
                  [] a.status = 501 -> "NotImplemented501"
        IN (a.kind = "status" /\ a.status \in {400, 413, 414, 415, 501}) =>
              /\ EndsCall(k)
              /\ ~ret.ok /\ ret.v.kind = matching
              /\ ~result.ok /\ result.v.kind = "Query" /\ result.v.query.kind = matching

(* C1, its case: the first of two endpoints answered 501 *)
C1_Witness ==
    /\ pc = "done"
    /\ Len(servers) = 2 /\ UrlParses(2)
    /\ Len(attempts) = 1
    /\ attempts[1].kind = "status" /\ attempts[1].status = 501
    /\ sent = <<1>>

(* C2: when the first endpoint answers 429, 500, 502 or 504 and a second   *)
(* endpoint exists, the second is contacted; when it answers 200 with a    *)
(* decodable body, the request returns that decoded response as success    *)
(* and the operation does not return the first endpoint's error.           *)
C2_RetryableStatusFailsOver ==
    (/\ Len(attempts) >= 1
     /\ attempts[1].kind = "status"
     /\ attempts[1].status \in {429, 500, 502, 504}
     /\ Len(servers) >= 2
     /\ UrlParses(2)) =>
        /\ Contacted(2)
        /\ (Len(attempts) >= 2 /\ attempts[2].kind = "decoded") =>
              /\ EndsCall(2)
              /\ attempts[2].server = 2
              /\ ret.ok
              /\ ret.v.Status = attempts[2].body.Status
              /\ ret.v.Answer = attempts[2].body.Answer
              /\ result.ok \/ result.v.kind = "Status"
              /\ attempts[2].body.Status = 0 => result.ok

(* C2, its case: 502 from the first endpoint, a NoError answer from the second *)
C2_Witness ==
    /\ pc = "done"
    /\ Len(attempts) = 2
    /\ attempts[1].kind = "status" /\ attempts[1].status = 502
    /\ attempts[2].kind = "decoded" /\ attempts[2].body.Status = 0
    /\ call.rtype = RTYPE_a
    /\ result.ok /\ Len(result.v) = 2

(* C3: an attempt that ended with a body-read failure or a JSON-decode     *)
(* failure on HTTP 200 ends the call: ReadResponse, respectively           *)
(* ParseResponse, is returned and no later endpoint is attempted.          *)
C3_BodyFailureIsFatal ==
    \A k \in 1..Len(attempts) :
        LET a == attempts[k]
            matching == IF a.kind = "read" THEN "ReadResponse" ELSE "ParseResponse"
        IN a.kind \in {"read", "parse"} =>
              /\ EndsCall(k)
              /\ ~ret.ok /\ ret.v.kind = matching

(* C4: the endpoints are contacted in catalog order, one after another:    *)
(* the i-th GET goes to servers[i], each endpoint is contacted at most     *)
(* once, at most one exchange is in flight, and endpoint i+1 is contacted  *)
(* only after the attempt on endpoint i ended with a retryable outcome.    *)
C4_SequentialInOrder ==
    /\ \A i \in 1..Len(sent) : sent[i] = i
    /\ Len(sent) <= Len(servers)
    /\ Cardinality(inflight) <= 1
    /\ \A i \in 2..Len(sent) :
          /\ Len(attempts) >= i - 1
          /\ attempts[i - 1].server = i - 1
          /\ RetryableOutcome(attempts[i - 1])

(* C5: when every endpoint of the catalog ended with a retryable outcome,  *)
(* the call returns the error of the last endpoint attempted.              *)
C5_LastErrorSurfaced ==
    (/\ Len(servers) >= 1
     /\ Len(attempts) = Len(servers)
     /\ \A k \in 1..Len(attempts) : RetryableOutcome(attempts[k])) =>
        LET last == attempts[Len(attempts)]
            kind ==
                CASE last.kind \in {"timeout", "transport"} -> "Connection"
                  [] last.status = 429 -> "TooManyRequests429"
                  [] last.status = 500 -> "InternalServerError500"
                  [] last.status = 502 -> "BadGateway502"
                  [] last.status = 504 -> "ResolverTimeout504"
                  [] OTHER -> "Unknown"
        IN /\ EndsCall(Len(servers))
           /\ ~ret.ok /\ ret.v.kind = kind
           /\ ~result.ok /\ result.v.kind = "Query" /\ result.v.query = ret.v
           /\ last.kind = "timeout" => ret.v = elapsed_error
           /\ last.kind = "transport" => ret.v = transport_error

(* C5, its case: 429 from the first endpoint, then 504 from the second and *)
(* last: ResolverTimeout504 is returned                                    *)
C5_Witness ==
    /\ pc = "done"
    /\ Len(servers) = 2
    /\ Len(attempts) = 2
    /\ attempts[1].kind = "status" /\ attempts[1].status = 429
    /\ attempts[2].kind = "status" /\ attempts[2].status = 504
    /\ ret.v.kind = "ResolverTimeout504"

C7_NoResponseIsConnection ==
    \A k \in 1..Len(attempts) :
        attempts[k].kind \in {"timeout", "transport"} =>
            /\ Len(attempts) = k /\ pc # "done" => error.kind = "Connection"
            /\ IF k < Len(servers)
               THEN UrlParses(k + 1) => Contacted(k + 1)
               ELSE /\ EndsCall(k)
                    /\ ~ret.ok /\ ret.v.kind = "Connection"
                    /\ ~result.ok /\ result.v.kind = "Query"
                    /\ result.v.query.kind = "Connection"

(* C7, its case: the deadline of the first endpoint elapsed and the second *)
(* is being tried                                                          *)
C7_Witness ==
    /\ pc = "get"
    /\ Len(attempts) = 1
    /\ attempts[1].kind = "timeout"
    /\ sent = <<1, 2>>
    /\ error.kind = "Connection"

(* C8: a decoded response whose Status is not 0 (NoError) ends the call,   *)
(* for resolve_<konst> and for resolve_mx_and_sort alike: the operation    *)
(* returns the Status error of the mapped RCode, hence no records, and no  *)
(* further endpoint is tried.                                              *)
C8_DnsStatusIsTerminal ==
    \A k \in 1..Len(attempts) :
        LET a == attempts[k]
            mapped == IF a.body.Status <= 23 THEN RCode[a.body.Status + 1] ELSE "Unknown"
        IN (a.kind = "decoded" /\ a.body.Status # 0) =>
              /\ EndsCall(k)
              /\ ~result.ok
              /\ result.v.kind = "Status"
              /\ result.v.status = mapped
              /\ mapped # "NoError"

(* C8, its case: NXDomain from the first of two endpoints, with answers in *)
(* the body, to resolve_mx_and_sort                                        *)
C8_Witness ==
    /\ pc = "done"
    /\ call.op = "resolve_mx_and_sort"
    /\ Len(servers) = 2 /\ UrlParses(2)
    /\ Len(attempts) = 1
    /\ attempts[1].kind = "decoded"
    /\ attempts[1].body.Status = 3
    /\ attempts[1].body.Answer = Some(<<Cname1, A1>>)
    /\ result.v.status = "NXDomain"

(* The answers of the decoded response the request loop returned *)
Received == IF ret.v.Answer.some THEN ret.v.Answer.v ELSE <<>>

C9_WitnessTxt ==
    /\ pc = "done"
    /\ call.rtype = RTYPE_txt
    /\ ret.ok /\ ret.v.Status = 0
    /\ Received = <<A1, Txt1, Cname1>>
    /\ result.ok
    /\ result.v = <<Txt1>>

(* C10: every record resolve_a returns has type 1, and they are the A      *)
(* records of the response in the order received: over a CNAME record      *)
(* followed by A records the first result is the first A record.           *)
C10_ResolveAOnlyAddresses ==
    (/\ pc = "done"
     /\ call.op = "resolve"
     /\ call.rtype = RTYPE_a
     /\ result.ok) =>
        LET IsA(a) == a.type = 1
        IN /\ \A i \in 1..Len(result.v) : result.v[i].type = 1
           /\ result.v = SelectSeq(Received, IsA)

(* C11: a query of type ANY (code 0) answered with NoError returns every   *)
(* received answer whatever its type: nothing dropped, order unchanged.    *)
C11_AnyReturnsEverything ==
    (/\ pc = "done"
     /\ call.op = "resolve"
     /\ call.rtype.code = 0
     /\ ret.ok
     /\ ret.v.Status = 0) =>
        /\ result.ok
        /\ result.v = Received

(* C11, its case: ANY over [TXT, A, MX] returns the three in that order *)
C11_Witness ==
    /\ pc = "done"
    /\ call.rtype = RTYPE_any
    /\ ret.ok /\ ret.v.Status = 0
    /\ Received = <<Txt1, A1, Mx10>>
    /\ result.ok
    /\ result.v = <<Txt1, A1, Mx10>>

----------------------------------------------------------------------------
(* Vocabulary of the MX properties *)

(* resolve_mx_and_sort returned over a NoError response *)
MxSortReturned ==
    /\ pc = "done"
    /\ call.op = "resolve_mx_and_sort"
    /\ ret.ok
    /\ ret.v.Status = 0

(* The whitespace-separated fields of the data of an answer *)
Fields(a) == split_ascii_whitespace(a.data)

(* An MX answer whose data is a u32 priority followed by an exchange name *)
WellFormedMx(a) ==
    /\ a.type = 15
    /\ Len(Fields(a)) >= 2
    /\ parse_u32(Fields(a)[1]).some

(* The number a digit sequence writes *)
RECURSIVE NatOf(_)
NatOf(ds) == IF ds = <<>> THEN 0 ELSE 10 * NatOf(SubSeq(ds, 1, Len(ds) - 1)) + ds[Len(ds)]

(* The priority of a well-formed MX answer *)
PriorityOf(a) == NatOf(parse_u32(Fields(a)[1]).v)

(* The well-formed MX answers received with priority p, in the order received *)
ReceivedWith(p) ==
    LET Tied(a) == WellFormedMx(a) /\ PriorityOf(a) = p
    IN SelectSeq(Received, Tied)

(* The records returned whose priority is p, in the order returned *)
ReturnedWith(p) ==
    LET Tied(x) == NatOf(x.priority) = p
        tied == SelectSeq(mxs, Tied)
    IN [k \in 1..Len(tied) |-> tied[k].m]

(* The number of occurrences of x in the sequence s *)
Count(s, x) == Cardinality({i \in 1..Len(s) : s[i] = x})

(* C12: resolve_mx_and_sort returns its records in ascending order of the  *)
(* priority parsed from each record's data: of two returned records the    *)
(* one with the smaller priority comes first.                              *)
C12_MxAscendingPriority ==
    MxSortReturned =>
        /\ result.ok
        /\ Len(result.v) = Len(mxs)
        /\ \A k \in 1..Len(mxs) :
              /\ result.v[k] = mxs[k].m
              /\ \E i \in 1..Len(Received) :
                    /\ WellFormedMx(Received[i])
                    /\ PriorityOf(Received[i]) = NatOf(mxs[k].priority)
                    /\ Fields(Received[i])[2] = mxs[k].m.data
        /\ \A i, j \in 1..Len(mxs) :
              i < j => NatOf(mxs[i].priority) <= NatOf(mxs[j].priority)

(* C12, its case: priorities 10, 5 received in that order come back 5, 10 *)
C12_Witness ==
    /\ MxSortReturned
    /\ Received = <<Mx10, A1, Mx5>>
    /\ result.ok
    /\ Len(result.v) = 2
    /\ result.v[1].data = <<"g", ".">>
    /\ result.v[2].data = <<"a", ".">>

(* C13: resolve_mx_and_sort returns one record per well-formed MX answer   *)
(* received, none lost and none duplicated, each with its data replaced by *)
(* the exchange name alone and the name, type and TTL of its answer.       *)
C13_MxOnePerAnswerStripped ==
    MxSortReturned =>
        LET W == {i \in 1..Len(Received) : WellFormedMx(Received[i])}
        IN /\ result.ok
           /\ Len(result.v) = Cardinality(W)
           /\ \E f \in [1..Len(result.v) -> W] :
                 /\ \A k, l \in 1..Len(result.v) : k # l => f[k] # f[l]
                 /\ \A k \in 1..Len(result.v) :
                       /\ result.v[k].name = Received[f[k]].name
                       /\ result.v[k].type = Received[f[k]].type
                       /\ result.v[k].TTL = Received[f[k]].TTL
                       /\ result.v[k].data = Fields(Received[f[k]])[2]

(* C13, its case: of [MX "05 h.", MX without number, MX "10 a."] the two   *)
(* well-formed ones come back, data "h." and "a.", TTL 299 and 3599        *)
C13_Witness ==
    /\ MxSortReturned
    /\ Received = <<Mx5b, MxNoNumber, Mx10>>
    /\ result.ok
    /\ result.v = <<DnsAnswer("gmail.com.", 15, 299, <<"h", ".">>),
                    DnsAnswer("gmail.com.", 15, 3599, <<"a", ".">>)>>

(* C14 as stated: the MX sort is stable, well-formed MX answers of equal   *)
(* priority come back in the relative order in which they were received.   *)
C14_MxSortStable ==
    MxSortReturned =>
        \A k \in 1..Len(mxs) :
            LET p == NatOf(mxs[k].priority)
                tied == ReceivedWith(p)
            IN ReturnedWith(p) = [i \in 1..Len(tied) |-> [tied[i] EXCEPT !.data = Fields(tied[i])[2]]]

(* C14, amended: well-formed MX answers of equal priority all come back,   *)
(* next to one another, in a relative order that is not determined.        *)
C14_MxTiesAdjacentAnyOrder ==
    MxSortReturned =>
        /\ \A k \in 1..Len(mxs) :
              LET p == NatOf(mxs[k].priority)
                  tied == ReceivedWith(p)
              IN /\ Len(ReturnedWith(p)) = Len(tied)
                 /\ \A i \in 1..Len(tied) :
                       LET x == [tied[i] EXCEPT !.data = Fields(tied[i])[2]]
                       IN Count(ReturnedWith(p), x) =
                              Cardinality({j \in 1..Len(tied) :
                                  [tied[j] EXCEPT !.data = Fields(tied[j])[2]] = x})
        /\ \A i, j, k \in 1..Len(mxs) :
              (i < k /\ k < j /\ mxs[i].priority = mxs[j].priority)
                  => mxs[k].priority = mxs[i].priority

(* C14, its case: "5 g." received before "05 h." comes back after it *)
C14_Witness ==
    /\ MxSortReturned
    /\ Received = <<Mx5, Mx5b>>
    /\ result.ok
    /\ Len(result.v) = 2
    /\ result.v[1].data = <<"h", ".">>
    /\ result.v[2].data = <<"g", ".">>

(* C15: resolve_mx returns the MX answers in the order received with every *)
(* field, the data with its priority included, unmodified: it neither      *)
(* sorts nor strips.                                                       *)
C15_PlainMxUntouched ==
    (/\ pc = "done"
     /\ call.op = "resolve"
     /\ call.rtype = RTYPE_mx
     /\ ret.ok
     /\ ret.v.Status = 0) =>
        LET IsMx(a) == a.type = 15
        IN /\ result.ok
           /\ result.v = SelectSeq(Received, IsMx)
           /\ mxs = <<>>

(* C15, its case: [MX "10 a.", A, MX "5 g."] comes back [MX "10 a.", MX "5 g."] *)
C15_Witness ==
    /\ pc = "done"
    /\ call.op = "resolve"
    /\ call.rtype = RTYPE_mx
    /\ ret.ok /\ ret.v.Status = 0
    /\ Received = <<Mx10, A1, Mx5>>
    /\ result.ok
    /\ result.v = <<Mx10, Mx5>>

----------------------------------------------------------------------------
(* Vocabulary of the resolver properties *)

(* The address lists the servers of the catalog configure for the hostname h *)
ConfiguredFor(h) == {addr(servers[i]) : i \in {j \in 1..Len(servers) : domain(servers[j]) = h}}

(* The resolutions of the hostname h, in the order made *)
ResolutionsOf(h) ==
    LET Of(r) == r.name = h
    IN SelectSeq(resolved, Of)

(* The address a resolution gives the connector to connect to first *)
AddressToUse(r) == r.res.v[1]

(* The hostname h is registered in the resolver with candidate addresses *)
Registered(h) == h \in DOMAIN resolver /\ resolver[h] # <<>>

(* C16: for a registered hostname with N candidate addresses the k-th      *)
(* resolution over the lifetime of the client gives the address            *)
(* candidate_addrs[(k-1) mod N]: a cursor advances on every resolution.    *)
C16_RoundRobin ==
    \A h \in Hostnames :
        Registered(h) =>
            \A k \in 1..Len(ResolutionsOf(h)) :
                /\ ResolutionsOf(h)[k].res.ok
                /\ AddressToUse(ResolutionsOf(h)[k]) =
                       resolver[h][((k - 1) % Len(resolver[h])) + 1]

(* C17: m concurrent resolutions of one hostname take m consecutive        *)
(* positions of the round-robin sequence, each position exactly once: no   *)
(* address is given twice before every other address was given.            *)
C17_CursorAtomic ==
    \A h \in Hostnames :
        Registered(h) =>
            LET rs == ResolutionsOf(h)
                N == Len(resolver[h])
            IN \A a \in 1..N :
                   /\ Cardinality({k \in 1..Len(rs) :
                          rs[k].res.ok /\ AddressToUse(rs[k]) = resolver[h][a]})
                        = Cardinality({k \in 1..Len(rs) : ((k - 1) % N) + 1 = a})

C19_RequestedHostsRegistered ==
    \A k \in 1..Len(resolved) :
        /\ resolved[k].name \notin DOMAIN resolver => resolved[k].res = Err("AddrNotAvailable")
        /\ resolved[k].task = 0 => resolved[k].name \in DOMAIN resolver

----------------------------------------------------------------------------
(* Vocabulary of the dispatch property *)

(* The strings a and b are the same up to the case of their ASCII letters *)
SameUpToCase(a, b) ==
    /\ Len(a) = Len(b)
    /\ \A i \in 1..Len(a) :
          \/ a[i] = b[i]
          \/ \E k \in 1..26 : {a[i], b[i]} = {UpperCase[k], LowerCase[k]}

(* C20: resolve_str_type(name, T) behaves as the typed call resolve_<t>(name) *)
(* for every supported type name T in every letter-casing: it requests the  *)
(* same type and has the outcome of the typed call for the same responses.  *)
C20_StrTypeAsTypedCall ==
    \A t \in Rtypes :
        (/\ pc = "done"
         /\ call.op = "resolve_str_type"
         /\ SameUpToCase(call.text, stringify(t))) =>
            /\ call.rtype = t
            /\ Outcome(mxs, result) \in Results(Call("resolve", t, call.name, <<>>), ret)

(* C20, its case: resolve_str_type(name, "Mx") over [MX "10 a.", A, MX "5 g."] *)
(* returns what resolve_mx returns, [MX "10 a.", MX "5 g."]                *)
C20_Witness ==
    /\ pc = "done"
    /\ call.op = "resolve_str_type"
    /\ call.text = <<"M", "x">>
    /\ call.rtype = RTYPE_mx
    /\ ret.ok /\ ret.v.Status = 0
    /\ Received = <<Mx10, A1, Mx5>>
    /\ result = Ok(<<Mx10, Mx5>>)

(* C21: resolve_str_type with a string that is no supported type name in   *)
(* any letter-casing returns InvalidRecordType without network activity:   *)
(* no endpoint is contacted and no hostname is resolved.                   *)
C21_UnknownTypeFailsFast ==
    (/\ pc = "done"
     /\ call.op = "resolve_str_type"
     /\ \A t \in Rtypes : ~SameUpToCase(call.text, stringify(t))) =>
        /\ result = Err(DnsErrorInvalidRecordType)
        /\ sent = <<>>
        /\ attempts = <<>>
        /\ inflight = {}
        /\ resolved = <<>>
        /\ ret = NoResult

(* C21, its case: resolve_str_type("memo.com", "bogus") over a catalog of  *)
(* two endpoints whose URLs parse                                          *)
C21_Witness ==
    /\ pc = "done"
    /\ call.op = "resolve_str_type"
    /\ call.name = "memo.com"
    /\ call.text = <<"b", "o", "g", "u", "s">>
    /\ Len(servers) = 2 /\ UrlParses(1) /\ UrlParses(2)
    /\ result = Err(DnsErrorInvalidRecordType)
    /\ sent = <<>>

----------------------------------------------------------------------------
(* Vocabulary of the fail-fast properties *)

(* A name IDNA cannot map to ASCII: U+2488 is a disallowed character *)
NotNormalizable(name) == name = "\\u{2488}.com"

(* The call in progress reached the request loop: its type is determined *)
Requests == pc # "idle" /\ call.rtype # NoType

(* C23: a name that cannot be normalized to ASCII makes the query return   *)
(* InvalidName at once, before any endpoint is contacted, whatever the     *)
(* catalog.                                                                *)
C23_InvalidNameFailsFast ==
    (Requests /\ NotNormalizable(call.name)) =>
        /\ pc = "done"
        /\ ~ret.ok /\ ret.v.kind = "InvalidName"
        /\ result = Err(DnsErrorQuery(ret.v))
        /\ sent = <<>>
        /\ attempts = <<>>
        /\ inflight = {}
        /\ resolved = <<>>

(* C23, its case: resolve_a of the name over two endpoints whose URLs parse *)
C23_Witness ==
    /\ pc = "done"
    /\ call.op = "resolve" /\ call.rtype = RTYPE_a
    /\ NotNormalizable(call.name)
    /\ Len(servers) = 2 /\ UrlParses(1) /\ UrlParses(2)
    /\ ret.v.kind = "InvalidName"
    /\ sent = <<>>

(* C24: an endpoint whose URL cannot be constructed ends the query with    *)
(* InvalidEndpoint at once: neither it nor a later endpoint is contacted,  *)
(* also when the endpoints before it failed with retryable errors, which   *)
(* are then not the error returned.                                        *)
C24_InvalidEndpointFatal ==
    \A i \in 1..Len(servers) :
        (/\ Requests
         /\ ~NotNormalizable(call.name)
         /\ ~UrlParses(i)
         /\ Len(attempts) = i - 1
         /\ \A k \in 1..(i - 1) :
               attempts[k].server = k /\ RetryableOutcome(attempts[k])) =>
            /\ pc = "done"
            /\ ~ret.ok /\ ret.v.kind = "InvalidEndpoint"
            /\ result = Err(DnsErrorQuery(ret.v))
            /\ sent = [k \in 1..(i - 1) |-> k]
            /\ inflight = {}

(* C24, its case: the first endpoint answered 502, the URL of the second   *)
(* does not parse: InvalidEndpoint, the error 502 is not the one returned  *)
C24_Witness ==
    /\ pc = "done"
    /\ Len(servers) >= 2
    /\ ~UrlParses(2)
    /\ Len(attempts) = 1
    /\ attempts[1].kind = "status" /\ attempts[1].status = 502
    /\ sent = <<1>>
    /\ ret.v.kind = "InvalidEndpoint"

(* C25: there is no partial success: a resolve call returns an error, which *)
(* carries no records, or the complete list that the selection rule of the  *)
(* query picks from the decoded response, never a strict part of it.        *)
C25_NoPartialSuccess ==
    pc = "done" =>
        IF result.ok
        THEN /\ ret.ok
             /\ ret.v.Status = 0
             /\ IF call.op = "resolve_mx_and_sort"
                THEN \A i \in 1..Len(Received) :
                         WellFormedMx(Received[i]) =>
                             Count(result.v, [Received[i] EXCEPT !.data = Fields(Received[i])[2]])
                                 = Cardinality({j \in 1..Len(Received) :
                                       /\ WellFormedMx(Received[j])
                                       /\ Received[j].name = Received[i].name
                                       /\ Received[j].TTL = Received[i].TTL
                                       /\ Fields(Received[j])[2] = Fields(Received[i])[2]})
                ELSE LET Picked(a) ==
                             \/ call.rtype.code = 0
                             \/ a.type = call.rtype.code
                             \/ call.rtype.code \in {1, 28} /\ a.type = 5
                     IN result.v = SelectSeq(Received, Picked)
        ELSE /\ result.v.kind \in {"Query", "Status", "InvalidRecordType"}
             /\ ~(ret.ok /\ ret.v.Status = 0)
             /\ mxs = <<>>

(* C25, its case: resolve_a over [A, TXT, A] returns both A records *)
C25_Witness ==
    /\ pc = "done"
    /\ call.op = "resolve" /\ call.rtype = RTYPE_a
    /\ ret.ok /\ ret.v.Status = 0
    /\ Received = <<A1, Txt1, A2>>
    /\ result = Ok(<<A1, A2>>)

----------------------------------------------------------------------------
(* C26: rtype_to_name round-trips with the type table: the number of a      *)
(* supported type gives the name of the type in upper case, distinct types  *)
(* have distinct numbers, a number of no entry gives "UNKNOWN".             *)
C26_RtypeToNameRoundTrip ==
    /\ \A i, j \in 1..Len(rtypes) :
          i # j => rtypes[i].num # rtypes[j].num /\ rtypes[i].konst # rtypes[j].konst
    /\ named.some =>
          /\ \A k \in 1..Len(named.v.name) : \A l \in 1..26 : named.v.name[k] # LowerCase[l]
          /\ \A i \in 1..Len(rtypes) :
                rtypes[i].num = named.v.rtype => SameUpToCase(named.v.name, rtypes[i].konst)
          /\ (\A i \in 1..Len(rtypes) : rtypes[i].num # named.v.rtype) =>
                named.v.name = <<"U", "N", "K", "N", "O", "W", "N">>

(* C26, its case: 51, the number of nsec3param, gives "NSEC3PARAM" *)
C26_Witness ==
    /\ named.some
    /\ named.v.rtype = 51
    /\ named.v.name = <<"N", "S", "E", "C", "3", "P", "A", "R", "A", "M">>

(* C27: once the deadline of an endpoint has elapsed, a response of that    *)
(* endpoint that arrives afterwards is never used: its arrival changes      *)
(* nothing of the call (the attempt stays the connection error it was, the  *)
(* recorded error, the endpoint in turn and the outcome are what they were) *)
C27_LateResponseUnused ==
    [][late' # late =>
          /\ \A i \in late' \ late :
                \E k \in 1..Len(attempts) :
                   /\ attempts[k].server = i
                   /\ attempts[k].kind = "timeout"
          /\ UNCHANGED <<pc, cur, error, inflight, attempts, sent, resolved, ret, mxs, result>>]_vars

(* The first of two endpoints ran out of time, its response arrived late,   *)
(* and the call returned what the second endpoint answered                  *)
C27_Witness ==
    /\ pc = "done"
    /\ late = {1}
    /\ Len(attempts) = 2
    /\ attempts[1] = Attempt(1, "timeout", 0, Garbage)
    /\ attempts[2].server = 2
    /\ attempts[2].kind = "decoded"
    /\ ret.ok
    /\ error = elapsed_error

(* C28: the deadline of an endpoint covers the whole exchange: an attempt   *)
(* whose deadline elapsed while the body of its 200 response was being read *)
(* is abandoned and counts as a connection error, it never ends otherwise   *)
C28_DeadlineCoversBody ==
    \A k \in 1..Len(attempts) :
       attempts[k].server \in overdue => attempts[k].kind = "timeout"

(* C29: an HTTP status that no arm of the status match names is a retryable *)
(* Unknown error: the attempt leaves Unknown as the recorded error, the     *)
(* next endpoint is tried when one remains, and Unknown is returned when    *)
(* the endpoint was the last of the catalog                                 *)
C29_UnnamedStatusRetryable ==
    \A k \in 1..Len(attempts) :
       LET a == attempts[k]
       IN (a.kind = "status" /\ a.status \notin StatusArms) =>
             /\ k = Len(attempts) => error = QueryError("Unknown", "")
             /\ (a.server < Len(servers) /\ UrlParses(a.server + 1)) =>
                   /\ Contacted(a.server + 1)
                   /\ k = Len(attempts) => (pc \in {"get", "body"} /\ cur = a.server + 1)
             /\ a.server = Len(servers) =>
                   /\ EndsCall(k)
                   /\ ret = Err(QueryError("Unknown", ""))
                   /\ result = Err(DnsErrorQuery(QueryError("Unknown", "")))

(* Two endpoints answered 404 in turn: the second was tried after the first *)
(* and the call returned Unknown after the second                           *)
C29_Witness ==
    /\ pc = "done"
    /\ Len(servers) = 2
    /\ Len(attempts) = 2
    /\ attempts[1] = Attempt(1, "status", 404, Garbage)
    /\ attempts[2] = Attempt(2, "status", 404, Garbage)
    /\ sent = <<1, 2>>
    /\ ret = Err(QueryError("Unknown", ""))

(* The symbolic names of the DNS status numbers (IANA DNS RCODEs) *)
RCodeName(n) ==
    CASE n = 0 -> "NoError"      [] n = 1 -> "FormErr"       [] n = 2 -> "ServFail"
      [] n = 3 -> "NXDomain"     [] n = 4 -> "NotImp"        [] n = 5 -> "Refused"
      [] n = 6 -> "YXDomain"     [] n = 7 -> "YXRRSet"       [] n = 8 -> "NXRRSet"
      [] n = 9 -> "NotAuth"      [] n = 10 -> "NotZone"      [] n = 11 -> "DSOTYPENI"
      [] n = 12 -> "Unassigned12" [] n = 13 -> "Unassigned13"
      [] n = 14 -> "Unassigned14" [] n = 15 -> "Unassigned15"
      [] n = 16 -> "BADVERS"     [] n = 17 -> "BADKEY"       [] n = 18 -> "BADTIME"
      [] n = 19 -> "BADMODE"     [] n = 20 -> "BADNAME"      [] n = 21 -> "BADALG"
      [] n = 22 -> "BADTRUNC"    [] n = 23 -> "BADCOOKIE"
      [] OTHER -> "Unknown"

(* C30: the DNS status number of a decoded response is mapped to its       *)
(* symbolic RCode (0 NoError, 1 FormErr, 2 ServFail, 3 NXDomain, ... 23     *)
(* BADCOOKIE), a number with no mapping gives RCode Unknown, and records    *)
(* are returned for status 0 and for no other status                        *)
C30_StatusMapsToRCode ==
    \A k \in 1..Len(attempts) :
       LET a == attempts[k]
           n == a.body.Status
       IN a.kind = "decoded" =>
             /\ pc = "done"
             /\ result.ok <=> n = 0
             /\ n # 0 => result = Err(DnsErrorStatus(RCodeName(n)))
             /\ n > 23 => result = Err(DnsErrorStatus("Unknown"))

(* A response of status 23 that carries answers: BADCOOKIE and no records *)
C30_Witness ==
    /\ pc = "done"
    /\ Len(attempts) = 1
    /\ attempts[1].kind = "decoded"
    /\ attempts[1].body = Json(23, Some(<<Cname1, A1>>))
    /\ result = Err(DnsErrorStatus("BADCOOKIE"))

(* An MX answer whose data is not a u32 priority followed by a name: it has *)
(* no token, a first token that is no number or is past u32::MAX, or no     *)
(* second token                                                             *)
MalformedMx(a) ==
    /\ a.type = 15
    /\ \/ Fields(a) = <<>>
       \/ ~parse_u32(Fields(a)[1]).some
       \/ Len(Fields(a)) = 1

(* The record resolve_mx_and_sort returns for a well-formed MX answer *)
Stripped(a) == DnsAnswer(a.name, a.type, a.TTL, Fields(a)[2])

(* C31: in resolve_mx_and_sort an MX answer whose data is not a u32         *)
(* priority followed by an exchange name is dropped: the call succeeds all  *)
(* the same, nothing is returned for the malformed answers and every        *)
(* well-formed answer is still returned                                     *)
C31_MalformedMxDropped ==
    (MxSortReturned /\ \E i \in 1..Len(Received) : MalformedMx(Received[i])) =>
        LET good == SelectSeq(Received, WellFormedMx)
        IN /\ result.ok
           /\ Len(result.v) = Len(good)
           /\ \A k \in 1..Len(good) :
                 Count(result.v, Stripped(good[k])) = Count(good, good[k])
           /\ \A k \in 1..Len(result.v) :
                 \E i \in 1..Len(good) : result.v[k] = Stripped(good[i])

(* Of [MX past u32::MAX, MX "10 a.", MX without token] the one well-formed  *)
(* answer comes back, and the call succeeds                                 *)
C31_Witness ==
    /\ MxSortReturned
    /\ Received = <<MxOutOfRange, Mx10, MxNoToken>>
    /\ result = Ok(<<DnsAnswer("gmail.com.", 15, 3599, <<"a", ".">>)>>)
(* C32: a response decoded with status NoError and no Answer field is an   *)
(* empty answer list: whichever resolve operation was called, it returns   *)
(* success with an empty list of records                                   *)
C32_AbsentAnswerIsEmpty ==
    \A k \in 1..Len(attempts) :
       LET a == attempts[k]
       IN (a.status = 200 /\ a.body.json /\ a.body.Status = 0 /\ ~a.body.Answer.some) =>
             /\ a.kind = "decoded"
             /\ pc = "done"
             /\ ret = Ok(DnsResponse(0, None))
             /\ mxs = <<>>
             /\ result = Ok(<<>>)

(* resolve_mx_and_sort answered NoError without an Answer field by the     *)
(* second endpoint: success, no records                                    *)
C32_Witness ==
    /\ pc = "done"
    /\ call.op = "resolve_mx_and_sort"
    /\ Len(attempts) = 2
    /\ attempts[2] = Attempt(2, "decoded", 200, Json(0, None))
    /\ result = Ok(<<>>)
(* C33: an endpoint configured with an empty list of candidate addresses   *)
(* is reached all the same: the resolution of its hostname for a request   *)
(* to it does not fail with AddrNotAvailable                               *)
C33_EmptyAddressesUseRealDns ==
    \A k \in 1..Len(resolved) :
       (resolved[k].task = 0 /\ addr(servers[sent[k]]) = <<>>) =>
           /\ resolved[k].name = domain(servers[sent[k]])
           /\ resolved[k].res.ok
(* C34: an attempt that ends with a terminal outcome, a decoded 200         *)
(* response or a fatal error, ends the call and no further endpoint is     *)
(* contacted; the response returned on success is that of the first        *)
(* endpoint, in catalog order, whose outcome was not retryable, every      *)
(* endpoint before it having been attempted exactly once                   *)
C34_TerminalOutcomeStops ==
    /\ \A k \in 1..Len(attempts) :
          ~RetryableOutcome(attempts[k]) => EndsCall(k)
    /\ (pc = "done" /\ ret.ok) =>
          LET n == Len(attempts)
          IN /\ n >= 1
             /\ attempts[n].kind = "decoded"
             /\ ret.v = DnsResponse(attempts[n].body.Status, attempts[n].body.Answer)
             /\ \A k \in 1..n : attempts[k].server = k /\ sent[k] = k
             /\ Len(sent) = n
             /\ \A k \in 1..(n - 1) : RetryableOutcome(attempts[k])
(* The endpoints of the catalog whose hostname is h, in catalog order *)
EndpointsOf(h) == {i \in 1..Len(servers) : domain(servers[i]) = h}

(* The last of the endpoints of the catalog whose hostname is h *)
LastOf(h) == CHOOSE i \in EndpointsOf(h) : \A j \in EndpointsOf(h) : j <= i

(* C36: when two endpoints of the catalog the resolver was made of share a  *)
(* hostname and carry different candidate address lists, the resolver holds *)
(* one list for the hostname, that of the endpoint that comes last in the   *)
(* catalog: the requests to either endpoint resolve to that list and the    *)
(* addresses of the other endpoint are never used                           *)
C36_DuplicateHostLastWins ==
    \A i, j \in 1..Len(servers) :
       LET h == domain(servers[i])
       IN (/\ i < j
           /\ domain(servers[j]) = h
           /\ addr(servers[i]) # addr(servers[j])
           /\ h \in DOMAIN resolver) =>
              LET kept == addr(servers[LastOf(h)])
              IN /\ resolver[h] = kept
                 /\ \A k \in 1..Len(resolved) :
                       (resolved[k].task = 0 /\ sent[k] \in EndpointsOf(h)) =>
                           /\ resolved[k].name = h
                           /\ resolved[k].res.ok <=> kept # <<>>
                           /\ resolved[k].res.ok => resolved[k].res.v = kept

(* Two endpoints doh.opendns.com, the first with 208.67.222.222 and the     *)
(* second with 208.67.220.220: the requests to the first and to the second  *)
(* both resolved to 208.67.220.220                                          *)
C36_Witness ==
    /\ Len(servers) = 2
    /\ addr(servers[1]) = <<"208.67.222.222">>
    /\ addr(servers[2]) = <<"208.67.220.220">>
    /\ sent = <<1, 2>>
    /\ Len(resolved) = 2
    /\ resolved[1].res.ok /\ resolved[1].res.v = <<"208.67.220.220">>
    /\ resolved[2].res.ok /\ resolved[2].res.v = <<"208.67.220.220">>
----------------------------------------------------------------------------
(* Vocabulary of the concurrency property *)

(* The attempt ended the loop of its query by itself *)
ReturnsAtOnce(a) ==
    \/ a.kind = "decoded"
    \/ a.kind = "status" /\ a.status \in {400, 413, 414, 415, 501}

(* What the loop of a query returns after the attempt a, its last *)
ReturnAfter(a) ==
    CASE a.kind = "decoded" -> Ok(DnsResponse(a.body.Status, a.body.Answer))
      [] a.kind = "status" /\ a.status = 400 -> Err(QueryError("BadRequest400", ""))
      [] a.kind = "status" /\ a.status = 500 -> Err(QueryError("InternalServerError500", ""))
      [] a.kind = "timeout" -> Err(QueryError("Connection", "connection timeout after"))
      [] a.kind = "transport" -> Err(QueryError("Connection", "error trying to connect"))
      [] a.kind = "read" -> Err(QueryError("ReadResponse", "error reading a body"))
      [] a.kind = "parse" ->
            Err(QueryError("ParseResponse", "expected value at line 1 column 1"))

(* C35: queries that run at once on one client do not interfere: each goes  *)
(* through the catalog in order by its own attempts, ends where its own     *)
(* attempts make it end, and its outcome is what its own name, type and     *)
(* responses give, whatever the steps of the other queries in between; two  *)
(* queries with the same call and the same responses have the same outcome  *)
C35_ConcurrentQueriesIndependent ==
    /\ \A q \in Queries :
          LET l == queries[q]
              n == Len(l.attempts)
          IN /\ Len(l.sent) <= Len(servers)
             /\ \A k \in 1..Len(l.sent) : l.sent[k] = k
             /\ \A k \in 1..n : l.attempts[k].server = k
             /\ \A k \in 1..(n - 1) : ~ReturnsAtOnce(l.attempts[k])
             /\ l.pc = "idle" => (n = 0 /\ l.sent = <<>>)
             /\ l.pc \in {"get", "body"} => Len(l.sent) = n + 1
             /\ l.pc = "done" =>
                   /\ n >= 1
                   /\ Len(l.sent) = n
                   /\ ReturnsAtOnce(l.attempts[n]) \/ n = Len(servers)
                   /\ l.ret = ReturnAfter(l.attempts[n])
                   /\ l.result \in {x.res : x \in Results(l.call, l.ret)}
    /\ \A p, q \in Queries :
          (/\ queries[p].pc = "done"
           /\ queries[q].pc = "done"
           /\ queries[p].call = queries[q].call
           /\ queries[p].attempts = queries[q].attempts) =>
              /\ queries[p].ret = queries[q].ret
              /\ queries[p].result = queries[q].result

(* Two queries ran at once: the first got 500 from endpoint 1 and the       *)
(* records from endpoint 2, the second ran out of time on endpoint 1 and    *)
(* got 400 from endpoint 2                                                  *)
C35_Witness ==
    /\ queries[1].pc = "done"
    /\ queries[1].call.op = "resolve"
    /\ Len(queries[1].attempts) = 2
    /\ queries[1].attempts[1] = Attempt(1, "status", 500, Garbage)
    /\ queries[1].attempts[2].kind = "decoded"
    /\ queries[1].result = Ok(<<Cname1, A1>>)
    /\ queries[2].pc = "done"
    /\ queries[2].call.op = "resolve_mx_and_sort"
    /\ queries[2].attempts =
          <<Attempt(1, "timeout", 0, Garbage), Attempt(2, "status", 400, Garbage)>>
    /\ queries[2].result = Err(DnsErrorQuery(QueryError("BadRequest400", "")))

====
